---- MODULE Spec2Model ----
(***************************************************************************)
(* Model of the Streamlit dashboard: the login gate, the memoized engine,  *)
(* the TTL query cache and the render passes of the two pages              *)
(* (app.py and pages/2_Weekly_Output.py), plus the pure dataframe steps of *)
(* the data-quality page.                                                  *)
(***************************************************************************)
EXTENDS Integers, Sequences, FiniteSets, TLC

\* ------------------------------------------------------------------------
\* Bounds of the model
\* ------------------------------------------------------------------------
TicksPerTtl == 2
MaxMarketRows == 20
MaxVolRows == 2
ManyRows == 30000

\* ------------------------------------------------------------------------
\* Program constants
\* ------------------------------------------------------------------------
CACHE_TTL_SECONDS == 6 * 60 * 60
DB_PORT == 5432
\* value= of the LOW and HIGH number inputs, in hundredths
DefaultLow == 98
DefaultHigh == 102

None == "<None>"

Sessions == {1, 2}
Pages == {"app", "weekly"}
TickSeconds == CACHE_TTL_SECONDS \div TicksPerTtl
MaxNow == TicksPerTtl * TickSeconds

SecretKeys == {"APP_PASSWORD", "DB_URL", "DB_HOST", "DB_NAME", "DB_USER", "DB_PASSWORD"}
DbFields == {"DB_HOST", "DB_NAME", "DB_USER", "DB_PASSWORD"}

\* Passwords a user may type into the login box.
Passwords == {"", "hunter2", "Hunter2"}

\* Values of the sidebar controls that reach a statement.
PrefixChoices == {<<>>, <<"KXNBAGAME", "KXNFLGAME">>}
TradesAfterChoices == {"2025-12-01"}
WeeksBackChoices == {4, 26}

VARIABLES
    env,          \* os.environ: key -> value or None
    secrets,      \* st.secrets: key -> value or None
    secretsOk,    \* FALSE: no secrets.toml, st.secrets.get raises
    authed,       \* st.session_state.authed per session: "absent", "False", "True"
    engines,      \* st.cache_resource memo, one slot per decorated get_engine
    enginesCreated, \* number of create_engine calls made in the process
    cache,        \* st.cache_data store of qdf: set of entries
    now,          \* wall clock, seconds
    served,       \* history: the table each key last returned, kept since the last
                  \* clear and for one TTL after the table was fetched
    dropped,      \* history: entries a clear removed whose key was not asked again
    last,         \* record of the render pass that has just finished
    \* the data section of one app.py pass (lines 188-257)
    df,           \* markets2026 as qdf returned it
    df_trades,    \* trade_backfill_processed as qdf returned it
    band,         \* <<low, high>> of the sidebar, in hundredths
    pc,           \* "idle", "markets", "trades", "charts", "done", "stopped",
                  \* "exception"
    markets,      \* what the markets calcs produced
    trades,       \* what the trades calcs produced
    shown         \* what the layout put on the page

calcVars == <<df, df_trades, band, pc, markets, trades, shown>>

appVars == <<env, secrets, secretsOk, authed, engines, enginesCreated, cache,
             now, served, dropped, last>>

\* ------------------------------------------------------------------------
\* Secret Resolver (app.py _get_secret)
\* ------------------------------------------------------------------------
get_secret(key, default) ==
    LET v == env[key] IN
    IF v # None /\ v # "" THEN v
    ELSE IF secretsOk /\ secrets[key] # None /\ secrets[key] # ""
         THEN secrets[key]
         ELSE default

\* Python truthiness of an optional string.
Truthy(v) == v # None /\ v # ""

\* ------------------------------------------------------------------------
\* Access Gate (require_login of both pages)
\* ------------------------------------------------------------------------
\* A gate that draws the prompt and the warning but lets the pass go on.
require_login_nostop(cur, clicked, pw) ==
    LET expected == get_secret("APP_PASSWORD", None) IN
    IF ~Truthy(expected)
    THEN [authed |-> cur, stop |-> FALSE, prompted |-> FALSE]
    ELSE LET a0 == IF cur = "absent" THEN "False" ELSE cur
             a1 == IF a0 # "True" /\ clicked
                   THEN (IF pw = expected THEN "True" ELSE "False")
                   ELSE a0
         IN [authed |-> a1, stop |-> FALSE, prompted |-> a0 # "True"]

\* A gate that unlocks on any submitted password.
require_login_anypw(cur, clicked, pw) ==
    LET expected == get_secret("APP_PASSWORD", None) IN
    IF ~Truthy(expected)
    THEN [authed |-> cur, stop |-> FALSE, prompted |-> FALSE]
    ELSE LET a0 == IF cur = "absent" THEN "False" ELSE cur
             a1 == IF a0 # "True" /\ clicked THEN "True" ELSE a0
         IN [authed |-> a1, stop |-> a1 # "True", prompted |-> a0 # "True"]

\* cur is st.session_state.authed before the gate, clicked the value of
\* st.button("Login"), pw the value of the password box.  The result is the
\* flag after the gate and whether the gate called st.stop().
require_login(cur, clicked, pw) ==
    LET expected == get_secret("APP_PASSWORD", None) IN
    IF ~Truthy(expected)
    THEN [authed |-> cur, stop |-> FALSE, prompted |-> FALSE]
    ELSE LET a0 == IF cur = "absent" THEN "False" ELSE cur
             a1 == IF a0 # "True" /\ clicked
                   THEN (IF pw = expected THEN "True" ELSE "False")
                   ELSE a0
         IN [authed |-> a1, stop |-> a1 # "True", prompted |-> a0 # "True"]

\* ------------------------------------------------------------------------
\* Connection Provider (get_engine of both pages, under st.cache_resource)
\* ------------------------------------------------------------------------
NoUrl == [raw |-> None, driver |-> None, user |-> None, password |-> None,
          host |-> None, port |-> 0, database |-> None]
NoEngine == [id |-> 0, url |-> NoUrl, pool_pre_ping |-> FALSE]

MissingDbConfig(page) ==
    IF page = "app"
    THEN "Missing DB config. Set either DB_URL, or DB_HOST/DB_NAME/DB_USER/DB_PASSWORD (via environment variables or Streamlit secrets)."
    ELSE "Missing DB config. Set DB_URL or DB_HOST/DB_NAME/DB_USER/DB_PASSWORD."

\* A get_engine that builds a URL out of whatever fields it found.
get_engine_degraded(page) ==
    LET db_url == get_secret("DB_URL", None)
        host == get_secret("DB_HOST", None)
        name == get_secret("DB_NAME", None)
        user == get_secret("DB_USER", None)
        pwd  == get_secret("DB_PASSWORD", None)
    IN IF Truthy(db_url)
       THEN [stop |-> FALSE, error |-> None, url |-> [NoUrl EXCEPT !.raw = db_url]]
       ELSE [stop |-> FALSE, error |-> None,
             url |-> [raw |-> None, driver |-> "postgresql+psycopg2", user |-> user,
                      password |-> pwd, host |-> host, port |-> DB_PORT,
                      database |-> name]]

\* The body of get_engine: the URL it hands to create_engine, or st.error
\* followed by st.stop().
get_engine(page) ==
    LET db_url == get_secret("DB_URL", None)
        host == get_secret("DB_HOST", None)
        name == get_secret("DB_NAME", None)
        user == get_secret("DB_USER", None)
        pwd  == get_secret("DB_PASSWORD", None)
    IN IF Truthy(db_url)
       THEN [stop |-> FALSE, error |-> None, url |-> [NoUrl EXCEPT !.raw = db_url]]
       ELSE IF ~(Truthy(host) /\ Truthy(name) /\ Truthy(user) /\ Truthy(pwd))
       THEN [stop |-> TRUE, error |-> MissingDbConfig(page), url |-> NoUrl]
       ELSE [stop |-> FALSE, error |-> None,
             url |-> [raw |-> None, driver |-> "postgresql+psycopg2", user |-> user,
                      password |-> pwd, host |-> host, port |-> DB_PORT,
                      database |-> name]]

\* st.cache_resource keys its memo by the decorated function (module,
\* qualified name and source text).  The two pages define two get_engine
\* functions whose source differs, so each page has a memo slot of its own.
ResourceSlot(page) == page

\* A call of the decorated get_engine: the memoized engine when the slot is
\* filled, otherwise the body runs and its result (if it returns) is kept.
cached_get_engine(engs, created, page) ==
    LET slot == ResourceSlot(page) IN
    IF engs[slot] # NoEngine
    THEN [engines |-> engs, created |-> created, engine |-> engs[slot],
          stop |-> FALSE, error |-> None]
    ELSE LET r == get_engine(page) IN
         IF r.stop
         THEN [engines |-> engs, created |-> created, engine |-> NoEngine,
               stop |-> TRUE, error |-> r.error]
         ELSE LET e == [id |-> created + 1, url |-> r.url, pool_pre_ping |-> TRUE] IN
              [engines |-> [engs EXCEPT ![slot] = e], created |-> created + 1,
               engine |-> e, stop |-> FALSE, error |-> None]

\* ------------------------------------------------------------------------
\* Statements and parameter mappings built by the pages
\* ------------------------------------------------------------------------
\* f"{p}%" for the prefixes of the multiselect.
LikePattern(p) == IF p = "KXNBAGAME" THEN "KXNBAGAME%" ELSE "KXNFLGAME%"
ParamName(i) == IF i = 0 THEN "p0" ELSE "p1"

\* like_params: a mapping, so a set of (name, value) pairs.
like_params(prefixes) ==
    { <<ParamName(i - 1), LikePattern(prefixes[i])>> : i \in 1..Len(prefixes) }

\* The text of sql_markets depends on the number of placeholders only.
sql_markets(prefixes) == [text |-> "markets2026", placeholders |-> Len(prefixes)]
sql_trades == [text |-> "trade_backfill_processed", placeholders |-> 1]
sql_weekly == [text |-> "summarised_tickers", placeholders |-> 1]

WeeksParam(w) == IF w = 4 THEN "4" ELSE "26"

\* ------------------------------------------------------------------------
\* Cached Query Executor (qdf of both pages, under st.cache_data)
\* ------------------------------------------------------------------------
NoTable == [sql |-> [text |-> None, placeholders |-> 0], params |-> {}, snapshot |-> -1]
NoServed == [table |-> NoTable, fetchedAt |-> -1, by |-> 0]

\* pd.read_sql against the database.  Other writers keep changing the tables,
\* so what a statement reads is stamped with the time it is read at.
read_sql(sql, params, t) == [sql |-> sql, params |-> params, snapshot |-> t]

\* An entry that expires after half the TTL.
Live_half(e, t) == t < e.created + (CACHE_TTL_SECONDS \div 2)

\* An entry that lives for twice the TTL.
Live_double(e, t) == t < e.created + 2 * CACHE_TTL_SECONDS

\* An entry is live while the clock is before created + ttl.
Live(e, t) == t < e.created + CACHE_TTL_SECONDS

\* The key of st.cache_data: statement text and parameter mapping.
SameKey(e, sql, params) == e.sql = sql /\ e.params = params

Lookup(c, sql, params, t) == { e \in c : SameKey(e, sql, params) /\ Live(e, t) }

\* Writing an entry drops the expired entries and replaces the key's entry.
Store(c, sql, params, table, t) ==
    { e \in c : Live(e, t) /\ ~SameKey(e, sql, params) }
        \cup { [sql |-> sql, params |-> params, created |-> t, table |-> table] }

\* A clear that leaves the entries in place.
ClearCache_keep(c) == c

\* st.cache_data.clear()
ClearCache(c) == {}

ServedFor(sv, sql, params) ==
    LET m == { x \in sv : SameKey(x, sql, params) } IN
    IF m = {} THEN NoServed
    ELSE LET x == CHOOSE y \in m : TRUE IN
         [table |-> x.table, fetchedAt |-> x.fetchedAt, by |-> x.by]

\* History of the clears: what a clear removed, until the key is asked again.
Drop(d, c) ==
    { x \in d : \A e \in c : ~SameKey(e, x.sql, x.params) }
        \cup { [sql |-> e.sql, params |-> e.params, created |-> e.created] : e \in c }
Asked(d, sql, params) == { x \in d : ~SameKey(x, sql, params) }
DroppedAt(d, sql, params) ==
    LET m == { x \in d : SameKey(x, sql, params) } IN
    IF m = {} THEN -1 ELSE (CHOOSE x \in m : TRUE).created
\* History of the expiries: the creation time of the key's expired entry.
ExpiredAt(c, sql, params, t) ==
    LET m == { e \in c : SameKey(e, sql, params) /\ t >= e.created + CACHE_TTL_SECONDS } IN
    IF m = {} THEN -1 ELSE (CHOOSE e \in m : TRUE).created

Serve(sv, sql, params, table, at, s) ==
    { x \in sv : ~SameKey(x, sql, params) }
        \cup { [sql |-> sql, params |-> params, table |-> table, fetchedAt |-> at, by |-> s] }

\* One call of qdf inside a render.  st carries the render's view of the
\* process state; a render that has already stopped makes no call.
qdf(st, s, page, sql, params, dbOk) ==
    IF st.halt # "none" THEN st
    ELSE
    LET hits == Lookup(st.cache, sql, params, now)
        call == [sql |-> sql, params |-> params, hit |-> FALSE, executed |-> FALSE,
                 returned |-> FALSE, table |-> NoTable, fetchedAt |-> -1, engine |-> 0,
                 droppedAt |-> DroppedAt(st.dropped, sql, params),
                 expiredAt |-> ExpiredAt(st.cache, sql, params, now)]
    IN IF hits # {}
       THEN LET e == CHOOSE x \in hits : TRUE IN
            [st EXCEPT !.calls = Append(@, [call EXCEPT !.hit = TRUE, !.returned = TRUE,
                                             !.table = e.table, !.fetchedAt = e.created]),
                       !.served = Serve(@, sql, params, e.table, e.created,
                                        ServedFor(@, sql, params).by),
                       !.dropped = Asked(@, sql, params)]
       ELSE LET g == cached_get_engine(st.engines, st.enginesCreated, page) IN
            IF g.stop
            THEN [st EXCEPT !.halt = "db_config", !.errors = Append(@, g.error),
                            !.dropped = Asked(@, sql, params),
                            !.calls = Append(@, call)]
            ELSE IF ~dbOk
            THEN [st EXCEPT !.halt = "exception",
                            !.dropped = Asked(@, sql, params),
                            !.engines = g.engines, !.enginesCreated = g.created,
                            !.calls = Append(@, [call EXCEPT !.executed = TRUE,
                                                  !.engine = g.engine.id])]
            ELSE LET t == read_sql(sql, params, now) IN
                 [st EXCEPT !.engines = g.engines, !.enginesCreated = g.created,
                            !.dropped = Asked(@, sql, params),
                            !.cache = Store(@, sql, params, t, now),
                            !.served = Serve(@, sql, params, t, now, s),
                            !.calls = Append(@, [call EXCEPT !.executed = TRUE,
                                                  !.returned = TRUE, !.table = t,
                                                  !.fetchedAt = now,
                                                  !.engine = g.engine.id])]

\* ------------------------------------------------------------------------
\* Render passes
\* ------------------------------------------------------------------------
NoRender == [session |-> 0, page |-> None, authedBefore |-> "absent", submitted |-> FALSE,
             pw |-> None, outcome |-> "none", prompted |-> FALSE, calls |-> <<>>,
             clearedCache |-> FALSE, transform |-> FALSE, errors |-> <<>>]

Start == [cache |-> cache, engines |-> engines, enginesCreated |-> enginesCreated,
          served |-> served, dropped |-> dropped, calls |-> <<>>, halt |-> "none",
          errors |-> <<>>]

\* What a finished pass leaves behind.
Finish(s, page, gate, submitted, pw, st, didClear) ==
    /\ authed' = [authed EXCEPT ![s] = gate.authed]
    /\ cache' = st.cache
    /\ engines' = st.engines
    /\ enginesCreated' = st.enginesCreated
    /\ served' = st.served
    /\ dropped' = st.dropped
    /\ last' = [session |-> s, page |-> page, authedBefore |-> authed[s],
                submitted |-> submitted, pw |-> IF submitted THEN pw ELSE None,
                outcome |-> IF st.halt = "none" THEN "rendered" ELSE st.halt,
                prompted |-> gate.prompted, calls |-> st.calls,
                clearedCache |-> didClear, transform |-> st.halt = "none",
                errors |-> st.errors]
    /\ UNCHANGED <<env, secrets, secretsOk, now>>
    /\ UNCHANGED calcVars

\* The Login button can only report a click when the previous pass of the
\* session drew it, that is when the flag exists and is false.
CanClickLogin(s) == authed[s] = "False"

\* app.py, top to bottom.
RenderApp(s, clicked, pw, refresh, prefixes, trades_after, dbOk) ==
    LET gate == require_login(authed[s], clicked, pw)
        submitted == clicked /\ gate.prompted
    IN IF gate.stop
       THEN Finish(s, "app", gate, submitted, pw, [Start EXCEPT !.halt = "login"], FALSE)
       ELSE IF refresh
       THEN Finish(s, "app", gate, submitted, pw,
                   [Start EXCEPT !.halt = "rerun", !.dropped = Drop(@, cache),
                                 !.cache = ClearCache(@), !.served = {}],
                   TRUE)
       ELSE IF Len(prefixes) = 0
       THEN Finish(s, "app", gate, submitted, pw, [Start EXCEPT !.halt = "no_prefix"], FALSE)
       ELSE LET st1 == qdf(Start, s, "app", sql_markets(prefixes), like_params(prefixes), dbOk)
                st2 == qdf(st1, s, "app", sql_trades, {<<"after_ts", trades_after>>}, dbOk)
            IN Finish(s, "app", gate, submitted, pw, st2, FALSE)

\* pages/2_Weekly_Output.py, top to bottom.
RenderWeekly(s, clicked, pw, refresh, weeks_back, dbOk) ==
    LET gate == require_login(authed[s], clicked, pw)
        submitted == clicked /\ gate.prompted
    IN IF gate.stop
       THEN Finish(s, "weekly", gate, submitted, pw, [Start EXCEPT !.halt = "login"], FALSE)
       ELSE IF refresh
       THEN Finish(s, "weekly", gate, submitted, pw,
                   [Start EXCEPT !.halt = "rerun", !.dropped = Drop(@, cache),
                                 !.cache = ClearCache(@), !.served = {}],
                   TRUE)
       ELSE LET st1 == qdf(Start, s, "weekly", sql_weekly,
                           {<<"weeks_back", WeeksParam(weeks_back)>>}, dbOk)
            IN Finish(s, "weekly", gate, submitted, pw, st1, FALSE)

AppPass ==
    \E s \in Sessions, clicked \in BOOLEAN, pw \in Passwords, refresh \in BOOLEAN,
       prefixes \in PrefixChoices, trades_after \in TradesAfterChoices, dbOk \in BOOLEAN :
        /\ clicked => CanClickLogin(s)
        \* controls the pass does not read are held at one value
        /\ ~clicked => pw = ""
        /\ refresh => Len(prefixes) = 0
        /\ (refresh \/ Len(prefixes) = 0) => dbOk
        /\ RenderApp(s, clicked, pw, refresh, prefixes, trades_after, dbOk)

WeeklyPass ==
    \E s \in Sessions, clicked \in BOOLEAN, pw \in Passwords, refresh \in BOOLEAN,
       weeks_back \in WeeksBackChoices, dbOk \in BOOLEAN :
        /\ clicked => CanClickLogin(s)
        \* controls the pass does not read are held at one value
        /\ ~clicked => pw = ""
        /\ refresh => (dbOk /\ weeks_back = 26)
        /\ RenderWeekly(s, clicked, pw, refresh, weeks_back, dbOk)

\* Time passes (and the tables change).
Tick ==
    /\ now + TickSeconds <= MaxNow
    /\ now' = now + TickSeconds
    /\ served' = { x \in served : now' < x.fetchedAt + CACHE_TTL_SECONDS }
    /\ last' = NoRender
    /\ UNCHANGED <<env, secrets, secretsOk, authed, engines, enginesCreated, cache,
                   dropped>>
    /\ UNCHANGED calcVars

\* ------------------------------------------------------------------------
\* Configurations the process may be started with
\* ------------------------------------------------------------------------
Cfg(app, url, host, name, user, pwd) ==
    [k \in SecretKeys |->
        CASE k = "APP_PASSWORD" -> app
          [] k = "DB_URL" -> url
          [] k = "DB_HOST" -> host
          [] k = "DB_NAME" -> name
          [] k = "DB_USER" -> user
          [] OTHER -> pwd]

Unset == Cfg(None, None, None, None, None, None)

EnvChoices ==
    { Cfg("hunter2", "postgresql://u:p@h/db", None, None, None, None),
      Cfg(None, None, "db.host", "kalshi", "reader", "s3cret"),
      Cfg("", "", "db.host", "", "reader", "s3cret"),
      Unset }

SecretChoices ==
    { Unset,
      Cfg("hunter2", None, None, "kalshi", None, None),
      Cfg(None, "postgresql://u:p@h/db", None, None, None, None) }

Started ==
    /\ authed = [s \in Sessions |-> "absent"]
    /\ engines = [p \in Pages |-> NoEngine]
    /\ enginesCreated = 0
    /\ cache = {}
    /\ now = 0
    /\ served = {}
    /\ dropped = {}
    /\ last = NoRender

\* ------------------------------------------------------------------------
\* Dataframe values
\* ------------------------------------------------------------------------
\* A cell: NaN / None / NaT, or a number.
Null == [isnull |-> TRUE, v |-> 0]
Val(n) == [isnull |-> FALSE, v |-> n]

\* ------------------------------------------------------------------------
\* Markets calcs (app.py lines 188-231)
\* ------------------------------------------------------------------------
\* markets2026 is held as its columns and the number of rows of each kind:
\*   nat     rows whose close_time is null or does not parse,
\*   future  rows closing in a week after the current one,
\*   filled  rows up to the current week whose "result" cell is not null,
\*   empty   rows up to the current week whose "result" cell is null.
MarketsColumns == {"ticker", "close_time", "result"}
NoMarkets == [outcome |-> "none", message |-> None, rows |-> 0, total_rows |-> 0,
              coverage |-> [c \in {} |-> 0], status |-> [c \in {} |-> None],
              broken_cols |-> {}]

\* numpy's round: to the nearest, ties to even.  a >= 0, b > 0.
RoundHalfEven(a, b) ==
    LET q == a \div b
        r == a % b
    IN IF 2 * r < b THEN q
       ELSE IF 2 * r > b THEN q + 1
       ELSE IF q % 2 = 0 THEN q ELSE q + 1

\* notna().mean().mul(100).round(2), in hundredths of a percent.
pct_not_null(notnull, total) == RoundHalfEven(10000 * notnull, total)

\* bins=[-1, 5, 50, 90, 100] in hundredths, and the labels.
Bins == <<-100, 500, 5000, 9000, 10000>>
Labels == <<"Dead", "Sparse", "Partial", "Good">>

\* pd.cut with intervals closed on the left: [-1, 5), [5, 50), [50, 90), [90, 100).
Cut_leftclosed(p) ==
    LET m == { i \in 1..Len(Labels) : Bins[i] <= p /\ p < Bins[i + 1] } IN
    IF m = {} THEN None ELSE Labels[CHOOSE i \in m : TRUE]

\* pd.cut with its default right=True: (-1, 5], (5, 50], (50, 90], (90, 100].
Cut(p) ==
    LET m == { i \in 1..Len(Labels) : Bins[i] < p /\ p <= Bins[i + 1] } IN
    IF m = {} THEN None ELSE Labels[CHOOSE i \in m : TRUE]

\* Non-null cells of a column of df_historical.
NotNullCount(d, c) == IF c = "result" THEN d.filled ELSE d.filled + d.empty

markets_calcs(d) ==
    IF "ticker" \notin d.columns
    THEN [NoMarkets EXCEPT !.outcome = "stopped",
                           !.message = "markets2026 missing required column: ticker"]
    ELSE IF "close_time" \notin d.columns
    \* df.get gives None, the column becomes all None and .dt (line 197) raises
    THEN [NoMarkets EXCEPT !.outcome = "exception"]
    ELSE
    LET rows == d.future + d.filled + d.empty      \* after dropna(close_time)
        total_rows == d.filled + d.empty           \* df_historical
        cols == d.columns \cup {"close_time_ny", "week_end_sun_ny", "ticker_option"}
    IN IF total_rows = 0
       THEN [NoMarkets EXCEPT !.outcome = "stopped", !.rows = rows,
                !.message = "No historical rows found for the selected prefixes."]
       ELSE LET coverage == [c \in cols |-> pct_not_null(NotNullCount(d, c), total_rows)]
            IN [outcome |-> "ok", message |-> None, rows |-> rows,
                total_rows |-> total_rows, coverage |-> coverage,
                status |-> [c \in cols |-> Cut(coverage[c])],
                broken_cols |-> { c \in cols : coverage[c] < 10000 }]

MarketsCalcs ==
    /\ pc = "markets"
    /\ markets' = markets_calcs(df)
    /\ pc' = IF markets'.outcome = "ok" THEN "trades" ELSE markets'.outcome
    /\ UNCHANGED <<df, df_trades, band, trades, shown>>
    /\ UNCHANGED appVars

\* ------------------------------------------------------------------------
\* Trades calcs (app.py lines 236-257)
\* ------------------------------------------------------------------------
needed == {"trades_sum_volume", "market_volume", "ticker", "processed_at"}
NoTrades == [outcome |-> "none", missing_needed |-> {}, df_vol |-> <<>>, df_outside |-> <<>>]

\* trades_sum_volume / market_volume as pandas divides floats.
volume_ratio(row) ==
    LET n == row.trades_sum_volume
        d == row.market_volume
    IN IF n.isnull \/ d.isnull THEN [kind |-> "nan", num |-> 0, den |-> 1]
       ELSE IF d.v = 0
       THEN (IF n.v = 0 THEN [kind |-> "nan", num |-> 0, den |-> 1]
             ELSE IF n.v > 0 THEN [kind |-> "inf", num |-> 1, den |-> 1]
             ELSE [kind |-> "-inf", num |-> -1, den |-> 1])
       ELSE IF d.v > 0 THEN [kind |-> "num", num |-> n.v, den |-> d.v]
       ELSE [kind |-> "num", num |-> 0 - n.v, den |-> 0 - d.v]

\* The row filter of lines 247-252; a comparison with NaN is false.
Kept(row) ==
    /\ ~row.market_volume.isnull /\ row.market_volume.v > 0
    /\ ~row.trades_sum_volume.isnull /\ row.trades_sum_volume.v >= 0
    /\ row.volume_ratio.kind # "nan"
    /\ ~row.processed_at.isnull

\* Series.between with both ends left out.
between_exclusive(r, low, high) ==
    /\ r.kind = "num"
    /\ low * r.den < 100 * r.num
    /\ 100 * r.num < high * r.den

\* Series.between(low, high), inclusive="both"; low and high in hundredths.
between(r, low, high) ==
    /\ r.kind = "num"
    /\ low * r.den <= 100 * r.num
    /\ 100 * r.num <= high * r.den

WithRatio(row) ==
    [trades_sum_volume |-> row.trades_sum_volume, market_volume |-> row.market_volume,
     processed_at |-> row.processed_at, volume_ratio |-> volume_ratio(row)]

WithFlag(row, low, high) ==
    [trades_sum_volume |-> row.trades_sum_volume, market_volume |-> row.market_volume,
     processed_at |-> row.processed_at, volume_ratio |-> row.volume_ratio,
     is_outside_band |-> ~between(row.volume_ratio, low, high)]

IsOutside(row) == row.is_outside_band

trades_calcs(t, low, high) ==
    \* line 237 assigns df_vol["processed_at"], which creates the column (all
    \* None, since df.get gives None) when the query result has none
    LET columns == t.columns \cup {"processed_at"}
        missing_needed == { c \in needed : c \notin columns }
    IN IF missing_needed # {}
       THEN [NoTrades EXCEPT !.outcome = "stopped", !.missing_needed = missing_needed]
       ELSE LET ratios == [i \in 1..Len(t.rows) |-> WithRatio(t.rows[i])]
                kept == SelectSeq(ratios, Kept)
                df_vol == [i \in 1..Len(kept) |-> WithFlag(kept[i], low, high)]
                df_outside == SelectSeq(df_vol, IsOutside)
            IN [outcome |-> IF "processed_at" \in t.columns THEN "ok"
                            \* line 257: .dt on a column that holds no datetimes
                            ELSE "exception",
                missing_needed |-> {}, df_vol |-> df_vol, df_outside |-> df_outside]

TradesCalcs ==
    /\ pc = "trades"
    /\ trades' = trades_calcs(df_trades, band[1], band[2])
    /\ pc' = IF trades'.outcome = "ok" THEN "charts" ELSE trades'.outcome
    /\ UNCHANGED <<df, df_trades, band, markets, shown>>
    /\ UNCHANGED appVars

\* ------------------------------------------------------------------------
\* Layout (app.py lines 259-452): the KPI row, the charts and the messages
\* ------------------------------------------------------------------------
NoLayout == [kpis |-> [markets_rows |-> 0, historical_rows |-> 0,
                       broken_columns |-> 0, outside_band |-> 0],
             selector |-> {}, histogram |-> 0, messages |-> {}]

\* The texts of st.success (line 388) and st.info (line 416, whose f-string
\* carries the low and high of band).
NoBrokenColumns == "No broken columns. Everything is 100% populated"
NoMarketsOutsideBand == "No markets outside band for the selected date window."

\* m: the result of the markets calcs, t: the result of the trades calcs.
\* Every historical row has a ticker_option and a week, so the pivot of
\* line 354 has rows whenever a column is selected.
layout(m, t) ==
    [kpis |-> [markets_rows |-> m.rows, historical_rows |-> m.total_rows,
               broken_columns |-> Cardinality(m.broken_cols),
               outside_band |-> Len(t.df_outside)],
     \* the options of the selectbox of line 343
     selector |-> m.broken_cols,
     \* the rows handed to px.histogram, with no test for emptiness
     histogram |-> Len(t.df_vol),
     messages |-> (IF m.broken_cols # {} THEN {} ELSE {NoBrokenColumns})
                  \cup (IF t.df_outside = <<>> THEN {NoMarketsOutsideBand} ELSE {})]

Layout ==
    /\ pc = "charts"
    /\ shown' = layout(markets, trades)
    /\ pc' = "done"
    /\ UNCHANGED <<df, df_trades, band, markets, trades>>
    /\ UNCHANGED appVars

\* ------------------------------------------------------------------------
\* Tables and bands the data section is run on
\* ------------------------------------------------------------------------
MarketsInputs ==
    { d \in [columns : { MarketsColumns, MarketsColumns \ {"ticker"},
                         MarketsColumns \ {"close_time"}, MarketsColumns \ {"result"} },
             nat : 0..1, future : 0..1, filled : 0..MaxMarketRows,
             empty : 0..MaxMarketRows] :
        /\ d.filled + d.empty <= MaxMarketRows
        /\ "result" \notin d.columns => d.empty = 0 }

\* Tables of about ManyRows historical rows with up to two of them null in
\* result: the sizes at which one row is less than half a hundredth of a percent.
LargeMarketsInputs ==
    { [columns |-> MarketsColumns, nat |-> 0, future |-> 0, filled |-> ManyRows - k,
       empty |-> k] : k \in 0..2 }

DefaultMarkets == [columns |-> MarketsColumns, nat |-> 0, future |-> 0, filled |-> 1,
                   empty |-> 0]

VolumeCells == {Null, Val(-1), Val(97), Val(98), Val(102)}
MarketVolumeCells == {Null, Val(0), Val(100)}
TimeCells == {Null, Val(1)}

TradesRows(cols) ==
    [trades_sum_volume : IF "trades_sum_volume" \in cols THEN VolumeCells ELSE {Null},
     market_volume : IF "market_volume" \in cols THEN MarketVolumeCells ELSE {Null},
     processed_at : IF "processed_at" \in cols THEN TimeCells ELSE {Null}]

\* A trades result with the given columns and n rows.
TradesInput(t, cols, n) ==
    \E r \in [1..n -> TradesRows(cols)] : t = [columns |-> cols, rows |-> r]

DefaultTrades == [columns |-> needed, rows |-> <<>>]

Bands == { <<DefaultLow, DefaultHigh>>, <<DefaultLow, DefaultLow>>, <<DefaultHigh, DefaultLow>> }

CalcIdle ==
    /\ df = DefaultMarkets
    /\ df_trades = DefaultTrades
    /\ band = <<DefaultLow, DefaultHigh>>
    /\ pc = "idle"
    /\ markets = NoMarkets
    /\ trades = NoTrades
    /\ shown = NoLayout

vars == <<appVars, calcVars>>

\* Any configuration, the clock held still: the gate and the
\* connection provider.
Init ==
    /\ env \in EnvChoices
    /\ secretsOk \in BOOLEAN
    /\ secrets \in IF secretsOk THEN SecretChoices ELSE {Unset}
    /\ Started
    /\ CalcIdle

Next == AppPass \/ WeeklyPass

Spec == Init /\ [][Next]_vars

\* A configuration without a password and with a complete database
\* configuration, the clock running: the query cache.
CacheInit ==
    /\ env = Cfg(None, None, "db.host", "kalshi", "reader", "s3cret")
    /\ secretsOk = FALSE
    /\ secrets = Unset
    /\ Started
    /\ CalcIdle

CacheNext == AppPass \/ WeeklyPass \/ Tick

CacheSpec == CacheInit /\ [][CacheNext]_vars

\* The data section of an app.py pass that got both tables, over the tables
\* the two statements may return and the bands the sidebar may hold.
CalcInit ==
    /\ env = Cfg(None, None, "db.host", "kalshi", "reader", "s3cret")
    /\ secretsOk = FALSE
    /\ secrets = Unset
    /\ Started
    /\ \/ df \in MarketsInputs \cup LargeMarketsInputs /\ df_trades = DefaultTrades
          /\ band = <<DefaultLow, DefaultHigh>>
       \/ /\ df = DefaultMarkets
          /\ band \in Bands
          /\ \/ \E n \in 0..MaxVolRows : TradesInput(df_trades, needed, n)
             \/ \E cols \in SUBSET needed, n \in 0..1 : TradesInput(df_trades, cols, n)
    /\ pc = "markets"
    /\ markets = NoMarkets
    /\ trades = NoTrades
    /\ shown = NoLayout

CalcNext == MarketsCalcs \/ TradesCalcs \/ Layout

CalcSpec == CalcInit /\ [][CalcNext]_vars

\* ------------------------------------------------------------------------
\* Properties of the gate and the connection provider (Spec)
\* ------------------------------------------------------------------------
Expected == get_secret("APP_PASSWORD", None)
Rendered == last.outcome # "none"
CallsOf(r) == { r.calls[i] : i \in 1..Len(r.calls) }

\* C1: with APP_PASSWORD configured, a pass that leaves the session's flag
\* other than true stops at the gate: it makes no qdf call (no cache lookup,
\* no statement), clears no cache and runs no transform or chart step.
C1_LockedPassHaltsAtGate ==
    (Rendered /\ Truthy(Expected) /\ authed[last.session] # "True")
        => /\ last.outcome = "login"
           /\ last.calls = <<>>
           /\ ~last.clearedCache
           /\ ~last.transform

\* A locked pass of one session on a wrong password while the other session
\* has filled the cache.
C1_Witness ==
    /\ Rendered /\ Truthy(Expected)
    /\ authed[last.session] = "False"
    /\ last.submitted /\ last.pw # Expected
    /\ last.outcome = "login"
    /\ cache # {}

\* C2: a session's flag starts out false, changes only from false to true,
\* only in a pass of that session in which Login was submitted with a password
\* equal to the secret, and is never set back; a wrong password leaves it false.
C2_AuthFlagOnlyRises ==
    [][ \A s \in Sessions :
          /\ authed[s] = "absent" => authed'[s] \in {"absent", "False"}
          /\ authed[s] = "True" => authed'[s] = "True"
          /\ (authed[s] = "False" /\ authed'[s] # "False")
                => /\ authed'[s] = "True"
                   /\ last'.session = s
                   /\ last'.submitted
                   /\ last'.pw = Expected
          /\ (last'.session = s /\ last'.submitted /\ last'.pw # Expected /\ last' # last)
                => authed'[s] = "False"
      ]_vars

\* A session unlocked by a matching password after a pass that left it false.
C2_Witness ==
    /\ Rendered
    /\ last.authedBefore = "False"
    /\ last.submitted /\ last.pw = Expected
    /\ authed[last.session] = "True"

\* C6: at most one engine is ever constructed in the process, and every
\* get_engine call that returns an engine returns that one.
C6_SinglePool ==
    /\ enginesCreated <= 1
    /\ \A p, q \in Pages :
          (engines[p] # NoEngine /\ engines[q] # NoEngine) => engines[p] = engines[q]
    /\ \A c \in CallsOf(last) : c.engine \in {0, 1}

Resolves(k) == Truthy(get_secret(k, None))
Incomplete == ~Resolves("DB_URL") /\ \E f \in DbFields : ~Resolves(f)
FieldsUrl ==
    [raw |-> None, driver |-> "postgresql+psycopg2", user |-> get_secret("DB_USER", None),
     password |-> get_secret("DB_PASSWORD", None), host |-> get_secret("DB_HOST", None),
     port |-> 5432, database |-> get_secret("DB_NAME", None)]

\* C7: with DB_URL unresolved and one of the four fields unresolved, no engine
\* is ever created, and a pass that reaches qdf shows the error and stops
\* without executing a statement; with DB_URL resolved every engine is built
\* from it alone, otherwise from the four fields and port 5432.
C7_IncompleteConfigHalts ==
    /\ Incomplete =>
          /\ enginesCreated = 0
          /\ \A p \in Pages : engines[p] = NoEngine
          /\ \A c \in CallsOf(last) : ~c.hit /\ ~c.executed /\ ~c.returned
          /\ last.calls # <<>> =>
                /\ last.outcome = "db_config"
                /\ last.errors = <<MissingDbConfig(last.page)>>
                /\ Len(last.calls) = 1
                /\ ~last.transform
    /\ \A p \in Pages :
          engines[p] # NoEngine =>
              /\ ~Incomplete
              /\ engines[p].url = IF Resolves("DB_URL")
                                  THEN [NoUrl EXCEPT !.raw = get_secret("DB_URL", None)]
                                  ELSE FieldsUrl

\* A pass stopped by get_engine on an incomplete configuration.
C7_Witness ==
    /\ Incomplete
    /\ last.outcome = "db_config"
    /\ last.calls # <<>>
    /\ last.errors # <<>>

\* ------------------------------------------------------------------------
\* Properties of the query cache (CacheSpec)
\* ------------------------------------------------------------------------
\* C3: a qdf call for a key that an earlier call (of any session) returned a
\* table for, with no clear since and within the TTL of that table, makes no
\* round trip and returns an equal table.
C3_SecondCallServedFromCache ==
    [][ \A i \in 1..Len(last'.calls) :
          LET c == last'.calls[i]
              prev == ServedFor(served, c.sql, c.params)
          IN (last' # last /\ prev # NoServed /\ now < prev.fetchedAt + CACHE_TTL_SECONDS)
                => /\ c.hit /\ ~c.executed /\ c.returned
                   /\ c.table = prev.table
      ]_vars

\* A hit, later in the window, by a session other than the one that fetched.
C3_Witness ==
    \E c \in CallsOf(last) :
        /\ c.hit /\ c.returned
        /\ now > c.fetchedAt
        /\ ServedFor(served, c.sql, c.params).by # last.session
        /\ ServedFor(served, c.sql, c.params).by \in Sessions

\* C4: a pass in which Refresh was pressed leaves the cache empty, whatever
\* the age of the entries, and the next call for every key the clear removed
\* is a miss that goes to the database, in any session.
C4_RefreshEmptiesCache ==
    /\ last.clearedCache => (cache = {} /\ last.outcome = "rerun" /\ last.calls = <<>>)
    /\ \A c \in CallsOf(last) :
          c.droppedAt >= 0 => /\ ~c.hit /\ c.executed
                              /\ c.returned => (c.fetchedAt = now /\ c.table.snapshot = now)

\* A statement executed again although the entry the clear removed was still
\* within its TTL.
C4_Witness ==
    \E c \in CallsOf(last) :
        /\ c.droppedAt >= 0
        /\ now < c.droppedAt + CACHE_TTL_SECONDS
        /\ c.executed /\ c.returned

\* C5: every table qdf returns was fetched at most CACHE_TTL_SECONDS before
\* the call, and a call for a key whose entry has expired executes the
\* statement again.
C5_ServedWithinTtl ==
    \A c \in CallsOf(last) :
        /\ c.returned => (c.fetchedAt <= now /\ now - c.fetchedAt <= CACHE_TTL_SECONDS)
        /\ c.hit => c.table.snapshot = c.fetchedAt
        /\ c.expiredAt >= 0 => (~c.hit /\ c.executed)

\* A call that found the key's entry expired and fetched the table again.
C5_Witness ==
    \E c \in CallsOf(last) :
        /\ c.expiredAt >= 0
        /\ c.executed /\ c.returned /\ c.fetchedAt = now

\* ------------------------------------------------------------------------
\* Properties of the data section (CalcSpec)
\* ------------------------------------------------------------------------
RowsOf(t) == { t[i] : i \in 1..Len(t) }
Below(r, bound) == 100 * r.num < bound * r.den
Above(r, bound) == 100 * r.num > bound * r.den
Flagged(t) == { i \in 1..Len(t) : t[i].is_outside_band }

\* C8: every row the volume-ratio filter keeps is flagged outside-band iff
\* its ratio is below low or above high, a ratio equal to low or to high is
\* inside, and df_outside holds exactly the flagged rows of df_vol.
C8_OutsideBandIffBeyondBounds ==
    trades.outcome = "ok" =>
        /\ \A row \in RowsOf(trades.df_vol) :
              /\ row.volume_ratio.kind = "num" /\ row.volume_ratio.den > 0
              /\ row.is_outside_band <=>
                    (Below(row.volume_ratio, band[1]) \/ Above(row.volume_ratio, band[2]))
        /\ RowsOf(trades.df_outside) = { row \in RowsOf(trades.df_vol) : row.is_outside_band }
        /\ Len(trades.df_outside) = Cardinality(Flagged(trades.df_vol))

\* A kept row exactly at high that is inside, next to a kept row below low
\* that is outside and is the one row of df_outside.
C8_Witness ==
    /\ trades.outcome = "ok"
    /\ band[1] < band[2]
    /\ \E row \in RowsOf(trades.df_vol) :
          /\ ~Below(row.volume_ratio, band[2]) /\ ~Above(row.volume_ratio, band[2])
          /\ ~row.is_outside_band
    /\ \E row \in RowsOf(trades.df_vol) :
          /\ Below(row.volume_ratio, band[1])
          /\ row.is_outside_band
          /\ trades.df_outside = <<row>>

\* C9 as stated: Dead when p < 5, Sparse when 5 <= p < 50, Partial when
\* 50 <= p < 90, Good when p >= 90.
ClaimedStatus(p) ==
    IF p < 500 THEN "Dead"
    ELSE IF p < 5000 THEN "Sparse"
    ELSE IF p < 9000 THEN "Partial"
    ELSE "Good"

C9_HalfOpenBandsAsStated ==
    markets.outcome = "ok" =>
        \A c \in DOMAIN markets.status : markets.status[c] = ClaimedStatus(markets.coverage[c])

\* C9 (amended): with p the non-null percentage of a column, the status is
\* Dead when p <= 5, Sparse when 5 < p <= 50, Partial when 50 < p <= 90 and
\* Good when 90 < p <= 100.
C9_RightClosedBands ==
    markets.outcome = "ok" =>
        \A c \in DOMAIN markets.status :
            LET p == markets.coverage[c]
                st == markets.status[c]
            IN /\ p >= 0 /\ p <= 10000
               /\ st = "Dead" <=> p <= 500
               /\ st = "Sparse" <=> (500 < p /\ p <= 5000)
               /\ st = "Partial" <=> (5000 < p /\ p <= 9000)
               /\ st = "Good" <=> (9000 < p /\ p <= 10000)

\* A column populated to exactly 90 percent, classified Partial, next to a
\* fully populated one classified Good.
C9_Witness ==
    /\ markets.outcome = "ok"
    /\ "result" \in DOMAIN markets.status
    /\ markets.coverage["result"] = 9000 /\ markets.status["result"] = "Partial"
    /\ markets.coverage["ticker"] = 10000 /\ markets.status["ticker"] = "Good"

\* C10: when the trades result lacks a non-empty set of the required columns,
\* the trades calcs stop at the guard with a message naming exactly the
\* absent columns.
AbsentNeeded == needed \ df_trades.columns

C10_GuardNamesAbsentColumns ==
    (trades.outcome # "none" /\ AbsentNeeded # {})
        => /\ trades.outcome = "stopped"
           /\ trades.missing_needed = AbsentNeeded
           /\ trades.df_vol = <<>> /\ trades.df_outside = <<>>

\* ------------------------------------------------------------------------
\* Empty results (CalcSpec)
\* ------------------------------------------------------------------------
\* The same query result with no rows in it.
ZeroRowMarkets(d) == [d EXCEPT !.nat = 0, !.future = 0, !.filled = 0, !.empty = 0]
ZeroRowTrades(t) == [t EXCEPT !.rows = <<>>]

\* The markets result came back with rows and none of them is historical.
HistoricalFilteredEmpty ==
    /\ pc # "markets"
    /\ {"ticker", "close_time"} \subseteq df.columns
    /\ df.nat + df.future + df.filled + df.empty > 0
    /\ df.filled + df.empty = 0

\* The trades result came back with rows and the filter kept none of them.
VolumeFilteredEmpty ==
    /\ pc = "done"
    /\ Len(df_trades.rows) > 0
    /\ trades.df_vol = <<>>

\* C11: in the completeness pipeline and in the volume-ratio pipeline, a row
\* set that the exclusions have emptied makes the render show a no-data
\* message for that pipeline, and what is shown differs from what is shown
\* when the query itself returned no rows.
C11_FilteredEmptyToldApart ==
    /\ HistoricalFilteredEmpty =>
          /\ markets.message # None
          /\ markets.message # markets_calcs(ZeroRowMarkets(df)).message
    /\ VolumeFilteredEmpty =>
          /\ shown.messages # {}
          /\ shown.messages #
                layout(markets, trades_calcs(ZeroRowTrades(df_trades), band[1], band[2])).messages

\* ------------------------------------------------------------------------
\* Broken columns (CalcSpec)
\* ------------------------------------------------------------------------
\* The historical rows in which column c is null.
NullRows(c) == (df.filled + df.empty) - NotNullCount(df, c)
WithNulls == { c \in DOMAIN markets.coverage : NullRows(c) >= 1 }

\* C12: a column of the historical table is in broken_cols if and only if at
\* least one of its rows is null, and the Broken columns KPI and the heatmap
\* column selector hold every column with a null row.
C12_BrokenIffAnyNull ==
    /\ (pc # "markets" /\ markets.outcome = "ok") =>
          \A c \in DOMAIN markets.coverage : c \in markets.broken_cols <=> NullRows(c) >= 1
    /\ pc = "done" =>
          /\ shown.kpis.broken_columns = Cardinality(WithNulls)
          /\ WithNulls \subseteq shown.selector

====
